---------------------------- MODULE Spec2Model ----------------------------
(***************************************************************************)
(* World Bank question answering: the slot normaliser of src/src/parser.py,*)
(* the indicator resolver of src/src/resolver.py, the HTTP client of       *)
(* src/src/api_client.py and the year note of src/src/query_engine.py.     *)
(*                                                                         *)
(* Python strings are sequences of one-character strings, so that `in`,    *)
(* endswith, startswith, lower and strip are computed character by         *)
(* character.  Closed enumerations that the code only compares for         *)
(* equality (sex, age band, unit qualifiers) are TLA+ strings; Chars gives *)
(* their spelling where the code concatenates them into text.              *)
(* Scores are integers: 10000 times the float score, with the semantic     *)
(* similarity given in hundredths.                                         *)
(***************************************************************************)
EXTENDS Integers, Sequences, FiniteSets, TLC

VARIABLES
    id2row,          \* IndicatorResolver.id2row: indicator id -> catalog row
    set_reversed,    \* iteration order of set(unit_qualifiers) in this process
    question,        \* the question handed to QuestionParser.parse
    extraction,      \* the five fields the dspy predictor returned
    slots,           \* the slots dictionary (parser output, resolver input)
    search_results,  \* the (id, semantic) list handed to resolve
    candidates,      \* resolve's local list of candidate records
    filtered,        \* resolve's local: _apply_constraints' return value
    scored,          \* resolve's local: _score_candidates' return value
    result,          \* what the call returned or raised
    \* several resolve calls on one IndicatorResolver
    requests,        \* per caller: the slots and search_results it passes
    heap,            \* the candidate dictionaries alive: address -> record
    frame,           \* per caller: the locals of its running resolve call
    returned,        \* per caller: what its calls returned or raised, in order
    \* WorldBankClient.fetch
    fetch_pc,        \* where fetch stands
    retries,         \* self.retries
    attempt,         \* the loop variable of fetch
    last_error,      \* fetch's local last_error
    log,             \* the requests sent and the sleeps taken, in order
    fetched,         \* what fetch returned or raised
    \* WorldBankClient.parse_value and the note of QueryEngine.answer
    payload,         \* the decoded response
    requested_year,  \* build_time_params' second value (None: NoneInt)
    parsed,          \* parse_value's return value
    answer           \* the year_used and note entries of answer's result

resolveVars == <<id2row, set_reversed, question, extraction, slots,
                 search_results, candidates, filtered, scored, result>>
callVars == <<requests, heap, frame, returned>>
fetchVars == <<fetch_pc, retries, attempt, last_error, log, fetched>>
answerVars == <<payload, requested_year, parsed, answer>>

vars == <<resolveVars, callVars, fetchVars, answerVars>>

---------------------------------------------------------------------------
(* String literals of the source, spelled out.                             *)
S_ZS == <<".", "Z", "S">>
S_ZG == <<".", "Z", "G">>
S_IN == <<".", "I", "N">>
S_PP == <<".", "P", "P">>
S_KD == <<".", "K", "D">>
S_CD == <<".", "C", "D">>
S_PC == <<".", "P", "C">>
S_FE_dot == <<".", "F", "E", ".">>
S_FE_IN == <<".", "F", "E", ".", "I", "N">>
S_FE_ZS == <<".", "F", "E", ".", "Z", "S">>
S_FE == <<".", "F", "E">>
S_MA_dot == <<".", "M", "A", ".">>
S_MA_IN == <<".", "M", "A", ".", "I", "N">>
S_MA_ZS == <<".", "M", "A", ".", "Z", "S">>
S_MA == <<".", "M", "A">>
S_pct_paren == <<"%", ")">>
S_pct == <<"%">>
S_percent == <<"p", "e", "r", "c", "e", "n", "t">>
S_growth_annual == <<"g", "r", "o", "w", "t", "h", " ", "(", "a", "n", "n", "u", "a", "l", " ", "%", ")">>
S_number == <<"n", "u", "m", "b", "e", "r">>
S_ppp == <<"p", "p", "p">>
S_constant == <<"c", "o", "n", "s", "t", "a", "n", "t">>
S_current_usd == <<"c", "u", "r", "r", "e", "n", "t", " ", "u", "s", "$">>
S_current == <<"c", "u", "r", "r", "e", "n", "t">>
S_per_capita == <<"p", "e", "r", " ", "c", "a", "p", "i", "t", "a">>
S_rate == <<"r", "a", "t", "e">>
S_consumer_prices == <<"c", "o", "n", "s", "u", "m", "e", "r", " ", "p", "r", "i", "c", "e", "s", " ", "(", "a", "n", "n", "u", "a", "l", " ", "%", ")">>
S_FP_CPI_TOTL_ZG == <<"F", "P", ".", "C", "P", "I", ".", "T", "O", "T", "L", ".", "Z", "G">>
S_NY_GDP_MKTP == <<"N", "Y", ".", "G", "D", "P", ".", "M", "K", "T", "P">>
S_SP_POP_TOTL == <<"S", "P", ".", "P", "O", "P", ".", "T", "O", "T", "L">>
S_SP_POP == <<"S", "P", ".", "P", "O", "P">>
S_65UP == <<"6", "5", "U", "P">>
S_1524 == <<"1", "5", "2", "4">>
S_0T04 == <<"0", "T", "0", "4">>
S_1564 == <<"1", "5", "6", "4">>
S_gdp == <<"g", "d", "p">>
S_population == <<"p", "o", "p", "u", "l", "a", "t", "i", "o", "n">>
S_inflation == <<"i", "n", "f", "l", "a", "t", "i", "o", "n">>
S_inflation_cpi == <<"i", "n", "f", "l", "a", "t", "i", "o", "n", "_", "c", "p", "i">>
S_unknown == <<"u", "n", "k", "n", "o", "w", "n">>
S_growth == <<"g", "r", "o", "w", "t", "h">>
S_female == <<"f", "e", "m", "a", "l", "e">>
S_male == <<"m", "a", "l", "e">>
S_total == <<"t", "o", "t", "a", "l">>
S_age == <<"a", "g", "e">>
S_65plus == <<"6", "5", "+">>
S_15_24 == <<"1", "5", "-", "2", "4">>
S_0_4 == <<"0", "-", "4">>
S_15_64 == <<"1", "5", "-", "6", "4">>
S_65up == <<"6", "5", "u", "p">>
S_0t04 == <<"0", "t", "0", "4">>
S_none == <<"n", "o", "n", "e">>
S_cpi == <<"c", "p", "i">>
S_consumer_price_index == <<"c", "o", "n", "s", "u", "m", "e", "r", " ", "p", "r", "i", "c", "e", " ", "i", "n", "d", "e", "x">>
S_latest == <<"l", "a", "t", "e", "s", "t">>
S_most_recent == <<"m", "o", "s", "t", " ", "r", "e", "c", "e", "n", "t">>
S_growth_rate == <<"g", "r", "o", "w", "t", "h", " ", "r", "a", "t", "e">>
S_yoy == <<"y", "o", "y">>
S_real == <<"r", "e", "a", "l">>
S_nominal == <<"n", "o", "m", "i", "n", "a", "l">>
S_usd == <<"u", "s", "d">>
S_space_rate == <<" ", "r", "a", "t", "e">>
S_unemployment == <<"u", "n", "e", "m", "p", "l", "o", "y", "m", "e", "n", "t">>
S_life_expectancy == <<"l", "i", "f", "e", "_", "e", "x", "p", "e", "c", "t", "a", "n", "c", "y">>
S_total_population == <<"t", "o", "t", "a", "l", " ", "p", "o", "p", "u", "l", "a", "t", "i", "o", "n">>
S_total_pop == <<"t", "o", "t", "a", "l", " ", "p", "o", "p">>
S_share == <<"s", "h", "a", "r", "e">>
S_ratio == <<"r", "a", "t", "i", "o">>
S_females == <<"f", "e", "m", "a", "l", "e", "s">>
S_women == <<"w", "o", "m", "e", "n">>
S_woman == <<"w", "o", "m", "a", "n">>
S_girls == <<"g", "i", "r", "l", "s">>
S_males == <<"m", "a", "l", "e", "s">>
S_men == <<"m", "e", "n">>
S_man == <<"m", "a", "n">>
S_boys == <<"b", "o", "y", "s">>
S_65 == <<"6", "5">>
S_plus == <<"+">>
S_plus_word == <<"p", "l", "u", "s">>
S_over == <<"o", "v", "e", "r">>
S_above == <<"a", "b", "o", "v", "e">>
S_15_24_mojibake == <<"1", "5", "a-circumflex", "euro-sign", "left-double-quote", "2", "4">>
ID_GDP_CD == <<"N", "Y", ".", "G", "D", "P", ".", "M", "K", "T", "P", ".", "C", "D">>
ID_GDP_PPP_KD == <<"N", "Y", ".", "G", "D", "P", ".", "P", "C", "A", "P", ".", "P", "P", ".", "K", "D">>
ID_GDP_ZG == <<"N", "Y", ".", "G", "D", "P", ".", "M", "K", "T", "P", ".", "K", "D", ".", "Z", "G">>
ID_POP_TOTL == <<"S", "P", ".", "P", "O", "P", ".", "T", "O", "T", "L">>
ID_POP_65UP_FE == <<"S", "P", ".", "P", "O", "P", ".", "6", "5", "U", "P", ".", "F", "E", ".", "I", "N">>
ID_UEM_MA == <<"S", "L", ".", "U", "E", "M", ".", "T", "O", "T", "L", ".", "M", "A", ".", "Z", "S">>
ID_ENRR_FE == <<"S", "E", ".", "P", "R", "M", ".", "E", "N", "R", "R", ".", "F", "E">>
ID_FCRF == <<"P", "A", ".", "N", "U", "S", ".", "F", "C", "R", "F">>
ID_ELC == <<"E", "G", ".", "E", "L", "C", ".", "A", "C", "C", "S">>
ID_ABSENT == <<"X", "X", ".", "N", "O", "N", "E">>
NAME_GDP_CD == <<"G", "D", "P", " ", "(", "c", "u", "r", "r", "e", "n", "t", " ", "U", "S", "$", ")">>
NAME_GDP_PPP_KD == <<"G", "D", "P", " ", "p", "e", "r", " ", "c", "a", "p", "i", "t", "a", ",", " ", "P", "P", "P", " ", "(", "c", "o", "n", "s", "t", "a", "n", "t", " ", "$", ")">>
NAME_GDP_ZG == <<"G", "D", "P", " ", "g", "r", "o", "w", "t", "h", " ", "(", "a", "n", "n", "u", "a", "l", " ", "%", ")">>
NAME_POP_TOTL == <<"P", "o", "p", "u", "l", "a", "t", "i", "o", "n", ",", " ", "t", "o", "t", "a", "l">>
NAME_POP_65UP_FE == <<"P", "o", "p", "u", "l", "a", "t", "i", "o", "n", " ", "6", "5", "+", ",", " ", "f", "e", "m", "a", "l", "e">>
NAME_UEM_MA == <<"U", "n", "e", "m", "p", "l", "o", "y", "m", "e", "n", "t", ",", " ", "m", "a", "l", "e", " ", "(", "%", ")">>
NAME_ENRR_FE == <<"S", "c", "h", "o", "o", "l", " ", "e", "n", "r", "o", "l", "l", "m", "e", "n", "t", ",", " ", "f", "e", "m", "a", "l", "e">>
NAME_FCRF == <<"O", "f", "f", "i", "c", "i", "a", "l", " ", "e", "x", "c", "h", "a", "n", "g", "e", " ", "r", "a", "t", "e">>
NAME_ELC == <<"A", "c", "c", "e", "s", "s", " ", "t", "o", " ", "e", "l", "e", "c", "t", "r", "i", "c", "i", "t", "y">>
UNIT_EMPTY == <<>>
UNIT_PERCENT == <<"P", "e", "r", "c", "e", "n", "t">>
UNIT_BLANK == <<" ">>
Q_Growth == <<"G", "r", "o", "w", "t", "h">>
Q_yoy == <<"y", "o", "y">>
Q_rate == <<"r", "a", "t", "e">>
Q_unemployment == <<"u", "n", "e", "m", "p", "l", "o", "y", "m", "e", "n", "t">>
Q_population == <<"p", "o", "p", "u", "l", "a", "t", "i", "o", "n">>
Q_total == <<"t", "o", "t", "a", "l">>
Q_women == <<"w", "o", "m", "e", "n">>
Q_male == <<"m", "a", "l", "e">>
Q_share == <<"s", "h", "a", "r", "e">>
Q_latest == <<"l", "a", "t", "e", "s", "t">>
Q_CPI == <<"C", "P", "I">>
Q_GDP == <<"G", "D", "P">>
X_India == <<"I", "n", "d", "i", "a">>
X_GDP == <<"G", "D", "P">>
X_Population == <<"P", "o", "p", "u", "l", "a", "t", "i", "o", "n">>
X_Unemployment_rate == <<"U", "n", "e", "m", "p", "l", "o", "y", "m", "e", "n", "t", " ", "r", "a", "t", "e">>
X_Life_expectancy == <<"L", "i", "f", "e", " ", "e", "x", "p", "e", "c", "t", "a", "n", "c", "y">>
X_None == <<"N", "o", "n", "e">>
X_Constant_USD == <<"C", "o", "n", "s", "t", "a", "n", "t", " ", "U", "S", "D">>
X_pct == <<"%">>
X_2022 == <<"2", "0", "2", "2">>
X_none == <<"n", "o", "n", "e">>
X_Female_65 == <<"F", "e", "m", "a", "l", "e", " ", "a", "g", "e", "s", " ", "6", "5", "+">>
X_men_15_24 == <<"m", "e", "n", " ", "1", "5", "-", "2", "4">>
Q_ScenarioC == <<"W", "h", "a", "t", " ", "i", "s", " ", "t", "h", "e", " ", "l", "a", "b", "o", "r", " ", "f", "o", "r", "c", "e", " ", "p", "a", "r", "t", "i", "c", "i", "p", "a", "t", "i", "o", "n", " ", "r", "a", "t", "e", " ", "f", "o", "r", " ", "f", "e", "m", "a", "l", "e", "s", " ", "i", "n", " ", "S", "a", "u", "d", "i", " ", "A", "r", "a", "b", "i", "a", " ", "i", "n", " ", "2", "0", "2", "2", "?">>
X_Saudi_Arabia == <<"S", "a", "u", "d", "i", " ", "A", "r", "a", "b", "i", "a">>
X_Labor_force_participation_rate == <<"L", "a", "b", "o", "r", " ", "f", "o", "r", "c", "e", " ", "p", "a", "r", "t", "i", "c", "i", "p", "a", "t", "i", "o", "n", " ", "r", "a", "t", "e">>
X_unknown_padded == <<"_", "u", "n", "k", "n", "o", "w", "n">>
Q_most_recent == <<"m", "o", "s", "t", " ", "r", "e", "c", "e", "n", "t">>
X_2022_superscript == <<"2", "0", "2", "superscript-two">>
D_2021 == <<"2", "0", "2", "1">>
D_2022 == <<"2", "0", "2", "2">>
D_2022Q1 == <<"2", "0", "2", "2", "Q", "1">>

---------------------------------------------------------------------------
(* Python string operations.                                               *)

UpperCase == <<"A","B","C","D","E","F","G","H","I","J","K","L","M",
               "N","O","P","Q","R","S","T","U","V","W","X","Y","Z">>
LowerCase == <<"a","b","c","d","e","f","g","h","i","j","k","l","m",
               "n","o","p","q","r","s","t","u","v","w","x","y","z">>

LowerChar(c) ==
    IF \E k \in 1..26 : UpperCase[k] = c
    THEN LowerCase[CHOOSE k \in 1..26 : UpperCase[k] = c]
    ELSE c

\* s.lower()
Lower(s) == [i \in 1..Len(s) |-> LowerChar(s[i])]

\* t in s
Contains(s, t) ==
    \E i \in 0..(Len(s) - Len(t)) : \A j \in 1..Len(t) : s[i + j] = t[j]

\* s.endswith(t)
EndsWith(s, t) ==
    /\ Len(s) >= Len(t)
    /\ \A j \in 1..Len(t) : s[Len(s) - Len(t) + j] = t[j]

\* s.startswith(t)
StartsWith(s, t) ==
    /\ Len(s) >= Len(t)
    /\ \A j \in 1..Len(t) : s[j] = t[j]

IsSpace(c) == c \in {" ", "\t", "\n", "\r"}

\* s.strip()
Strip(s) ==
    IF \A i \in 1..Len(s) : IsSpace(s[i]) THEN <<>>
    ELSE LET a == CHOOSE i \in 1..Len(s) :
                     ~IsSpace(s[i]) /\ \A k \in 1..(i - 1) : IsSpace(s[k])
             b == CHOOSE i \in 1..Len(s) :
                     ~IsSpace(s[i]) /\ \A k \in (i + 1)..Len(s) : IsSpace(s[k])
         IN  SubSeq(s, a, b)

---------------------------------------------------------------------------
(* resolver.py: the indicator classification predicates.                   *)

is_percent(ind_id, name, unit) ==
    \/ EndsWith(ind_id, S_ZS)
    \/ Contains(name, S_pct_paren)
    \/ Contains(unit, S_pct)
    \/ Contains(Lower(unit), S_percent)

is_growth(ind_id, name) ==
    EndsWith(ind_id, S_ZG) \/ Contains(Lower(name), S_growth_annual)

is_count(ind_id, unit) ==
    IF EndsWith(ind_id, S_ZS) \/ EndsWith(ind_id, S_ZG) THEN FALSE
    ELSE \/ EndsWith(ind_id, S_IN)
         \/ Contains(Lower(unit), S_number)
         \/ Strip(unit) = <<>>

is_ppp(ind_id, name) ==
    Contains(ind_id, S_PP) \/ Contains(Lower(name), S_ppp)

is_constant(ind_id, name) ==
    EndsWith(ind_id, S_KD) \/ Contains(Lower(name), S_constant)

is_current_usd(ind_id, name, unit) ==
    \/ EndsWith(ind_id, S_CD)
    \/ Contains(Lower(name), S_current_usd)
    \/ Contains(Lower(unit), S_current)

has_sex(ind_id, sex) ==
    IF sex = "female"
    THEN \/ Contains(ind_id, S_FE_dot)
         \/ EndsWith(ind_id, S_FE_IN)
         \/ EndsWith(ind_id, S_FE_ZS)
         \/ EndsWith(ind_id, S_FE)
    ELSE IF sex = "male"
    THEN \/ Contains(ind_id, S_MA_dot)
         \/ EndsWith(ind_id, S_MA_IN)
         \/ EndsWith(ind_id, S_MA_ZS)
         \/ EndsWith(ind_id, S_MA)
    ELSE IF sex = "total"
    THEN ~(Contains(ind_id, S_FE_dot) \/ Contains(ind_id, S_MA_dot))
    ELSE TRUE

\* age_codes of has_age; <<>> stands for a missing key (dict.get -> None)
age_codes(age_band) ==
    CASE age_band = "65up" -> S_65UP
      [] age_band = "1524" -> S_1524
      [] age_band = "0t04" -> S_0T04
      [] age_band = "1564" -> S_1564
      [] OTHER -> <<>>

has_age(ind_id, age_band) ==
    IF age_band = "none" THEN TRUE
    ELSE LET code == age_codes(age_band)
         IN  IF code # <<>> THEN Contains(ind_id, code) ELSE TRUE

---------------------------------------------------------------------------
(* resolver.py, build_query_terms: the regular expressions, as the         *)
(* leftmost match re.sub finds at each position.                           *)

Digits == {"0","1","2","3","4","5","6","7","8","9"}

\* \w
IsWordChar(c) ==
    \/ \E k \in 1..26 : UpperCase[k] = c \/ LowerCase[k] = c
    \/ c \in Digits
    \/ c = "_"

\* \b in front of a word character at position i
WordStart(s, i) == i = 1 \/ ~IsWordChar(s[i - 1])

\* the literal t (lower case) at position i, re.IGNORECASE
MatchCI(s, i, t) ==
    /\ i >= 1
    /\ i + Len(t) - 1 <= Len(s)
    /\ \A j \in 1..Len(t) : LowerChar(s[i + j - 1]) = t[j]

\* [\d\-\+\sandabove] under re.IGNORECASE
AgeClass(c) ==
    \/ c \in Digits
    \/ c \in {"-", "+"}
    \/ IsSpace(c)
    \/ LowerChar(c) \in {"a", "n", "d", "b", "o", "v", "e"}

\* last index of the longest run of characters satisfying the class from k
\* (k - 1 when the run is empty)
SpaceRunEnd(s, k) ==
    CHOOSE e \in (k - 1)..Len(s) :
        /\ \A m \in k..e : IsSpace(s[m])
        /\ e = Len(s) \/ ~IsSpace(s[e + 1])

AgeRunEnd(s, k) ==
    CHOOSE e \in (k - 1)..Len(s) :
        /\ \A m \in k..e : AgeClass(s[m])
        /\ e = Len(s) \/ ~AgeClass(s[e + 1])

\* ages?\s+[\d\-\+\sandabove]+ from position k: the index of the last
\* character matched, 0 when there is no match
AgesEnd(s, k) ==
    IF ~MatchCI(s, k, S_age) THEN 0
    ELSE LET w == IF MatchCI(s, k + 3, <<"s">>) THEN k + 4 ELSE k + 3
         IN  IF w <= Len(s) /\ IsSpace(s[w]) /\ AgeRunEnd(s, w) >= w + 1
             THEN AgeRunEnd(s, w)
             ELSE 0

\* \b(fe)?male : the index of the last character matched, 0 when none
SexWordEnd(s, i) ==
    IF ~WordStart(s, i) THEN 0
    ELSE IF MatchCI(s, i, S_female) THEN i + 5
    ELSE IF MatchCI(s, i, S_male) THEN i + 3
    ELSE 0

\* r'\b(fe)?male\s+(ages?|age)\s+[\d\-\+\sandabove]+'
MatchSexAges(s, i) ==
    LET w == SexWordEnd(s, i)
    IN  IF w = 0 \/ w = Len(s) THEN 0
        ELSE IF ~IsSpace(s[w + 1]) THEN 0
        ELSE AgesEnd(s, SpaceRunEnd(s, w + 1) + 1)

\* r'\b(fe)?male'
MatchSexWord(s, i) == SexWordEnd(s, i)

\* r'\bages?\s+[\d\-\+\sandabove]+'
MatchAges(s, i) == IF WordStart(s, i) THEN AgesEnd(s, i) ELSE 0

\* r'\s*\(ages?\s+[\d\-\+\sandabove]+\)'
MatchParenAges(s, i) ==
    LET p == SpaceRunEnd(s, i) + 1
    IN  IF p > Len(s) THEN 0
        ELSE IF s[p] # "(" THEN 0
        ELSE LET e == AgesEnd(s, p + 1)
             IN  IF e # 0 /\ e < Len(s) /\ s[e + 1] = ")" THEN e + 1 ELSE 0

\* r'\s*\(.*?(male|female).*?\)'
MatchParenSex(s, i) ==
    LET p == SpaceRunEnd(s, i) + 1
    IN  IF p > Len(s) THEN 0
        ELSE IF s[p] # "(" THEN 0
        ELSE LET words == {j \in (p + 1)..Len(s) : MatchCI(s, j, S_male)}
             IN  IF words = {} THEN 0
                 ELSE LET j  == CHOOSE a \in words : \A b \in words : a <= b
                          cl == {c \in (j + 4)..Len(s) : s[c] = ")"}
                      IN  IF cl = {} THEN 0
                          ELSE CHOOSE a \in cl : \A b \in cl : a <= b

\* r'\s+'
MatchSpaces(s, i) == IF IsSpace(s[i]) THEN SpaceRunEnd(s, i) ELSE 0

\* the match of pattern number k (the re.sub calls of lines 61-69, in
\* order) starting at position i: the index of its last character, or 0
Match(k, s, i) ==
    CASE k = 1 -> MatchSexAges(s, i)
      [] k = 2 -> MatchSexWord(s, i)
      [] k = 3 -> MatchAges(s, i)
      [] k = 4 -> MatchParenAges(s, i)
      [] k = 5 -> MatchParenSex(s, i)
      [] k = 6 -> MatchSpaces(s, i)

\* re.sub(pattern k, repl, s): the leftmost matches, left to right; e is
\* the match found at position i
RECURSIVE ReSubFrom(_, _, _, _)
RECURSIVE ReSubStep(_, _, _, _, _)
ReSubStep(k, repl, s, i, e) ==
    IF e # 0 THEN repl \o ReSubFrom(k, repl, s, e + 1)
    ELSE <<s[i]>> \o ReSubFrom(k, repl, s, i + 1)

ReSubFrom(k, repl, s, i) ==
    IF i > Len(s) THEN <<>> ELSE ReSubStep(k, repl, s, i, Match(k, s, i))

ReSub(k, repl, s) == ReSubFrom(k, repl, s, 1)

\* s.replace(a, b) for single characters a, b
ReplaceChar(s, a, b) == [i \in 1..Len(s) |-> IF s[i] = a THEN b ELSE s[i]]

\* lines 57-69: the cleaned concept
CleanConcept(raw) ==
    LET c0 == ReplaceChar(ReplaceChar(ReplaceChar(raw, "_", " "), "\n", " "), "\r", " ")
        c1 == ReSub(1, <<>>, c0)
        c2 == ReSub(2, <<>>, c1)
        c3 == ReSub(3, <<>>, c2)
        c4 == ReSub(4, <<>>, c3)
        c5 == ReSub(5, <<>>, c4)
    IN  Strip(ReSub(6, <<" ">>, c5))

\* the spelling of an enumeration value
Chars(v) ==
    CASE v = "female" -> S_female
      [] v = "male"   -> S_male
      [] v = "total"  -> S_total
      [] v = "65up"   -> S_65up
      [] v = "1524"   -> S_1524
      [] v = "0t04"   -> S_0t04
      [] v = "1564"   -> S_1564
      [] OTHER        -> <<>>

\* lines 77-89: the token of a unit qualifier, <<>> for the ones skipped
QualifierToken(qualifier) ==
    CASE qualifier = "percent_share" -> S_percent
      [] qualifier = "growth_rate"   -> S_growth
      [] qualifier = "per_capita"    -> S_per_capita
      [] qualifier = "ppp"           -> S_ppp
      [] qualifier = "current_usd"   -> S_current
      [] qualifier = "constant_usd"  -> S_constant
      [] OTHER                       -> <<>>

Qualifiers ==
    <<"per_capita", "ppp", "constant_usd", "current_usd", "growth_rate",
      "percent_share", "count_number">>

Reverse(s) == [i \in 1..Len(s) |-> s[Len(s) + 1 - i]]

\* set(slots["unit_qualifiers"])
QualifierSet(sl) == {sl.unit_qualifiers[i] : i \in 1..Len(sl.unit_qualifiers)}

\* `for qualifier in uq`: the elements of the set in this process's
\* iteration order
SetIteration(uq, reversed) ==
    LET InSet(x) == x \in uq
    IN  SelectSeq(IF reversed THEN Reverse(Qualifiers) ELSE Qualifiers, InSet)

\* lines 97-98
age_map(age_band) ==
    CASE age_band = "65up" -> S_65plus
      [] age_band = "1524" -> S_15_24
      [] age_band = "0t04" -> S_0_4
      [] age_band = "1564" -> S_15_64
      [] OTHER -> Chars(age_band)

\* " ".join(bits)
RECURSIVE Join(_)
Join(bits) ==
    IF bits = <<>> THEN <<>>
    ELSE IF Len(bits) = 1 THEN bits[1]
    ELSE bits[1] \o <<" ">> \o Join(Tail(bits))

\* CleanConcept of the concepts the requests use, computed once
CleanedConcepts ==
    [c \in {S_gdp, S_population, S_female, S_unknown, X_unknown_padded} |->
        CleanConcept(c)]

\* lines 72-102: the query built around the cleaned concept
QueryAround(concept, sl, reversed) ==
    LET b1 == IF concept # <<>> /\ concept # S_unknown THEN <<concept>> ELSE <<>>
        it == SetIteration(QualifierSet(sl), reversed)
        HasToken(qualifier) == QualifierToken(qualifier) # <<>>
        kept == SelectSeq(it, HasToken)
        b2 == [i \in 1..Len(kept) |-> QualifierToken(kept[i])]
        b3 == IF sl.sex # "total" THEN <<Chars(sl.sex)>> ELSE <<>>
        b4 == IF sl.age_band # "none" THEN <<age_map(sl.age_band)>> ELSE <<>>
    IN  Strip(Join(b1 \o b2 \o b3 \o b4))

\* line 102: query if query else concept
QueryOrConcept(query, concept) == IF query # <<>> THEN query ELSE concept

QueryOf(concept, sl, reversed) ==
    QueryOrConcept(QueryAround(concept, sl, reversed), concept)

build_query_terms(sl, reversed) ==
    QueryOf(IF sl.concept \in DOMAIN CleanedConcepts
            THEN CleanedConcepts[sl.concept]
            ELSE CleanConcept(sl.concept), sl, reversed)

\* Python's None where an integer may stand
NoneInt == -1

---------------------------------------------------------------------------
(* resolver.py, IndicatorResolver.                                         *)

\* the rows of the indicator catalog (ind_df); the columns topics,
\* sourceNote and source are copied into the candidates and never read
CatalogRows ==
    { [id |-> ID_GDP_CD,      name |-> NAME_GDP_CD,      unit |-> UNIT_EMPTY],
      [id |-> ID_GDP_PPP_KD,  name |-> NAME_GDP_PPP_KD,  unit |-> UNIT_EMPTY],
      [id |-> ID_GDP_ZG,      name |-> NAME_GDP_ZG,      unit |-> UNIT_EMPTY],
      [id |-> ID_POP_TOTL,    name |-> NAME_POP_TOTL,    unit |-> UNIT_BLANK],
      [id |-> ID_POP_65UP_FE, name |-> NAME_POP_65UP_FE, unit |-> UNIT_EMPTY],
      [id |-> ID_UEM_MA,      name |-> NAME_UEM_MA,      unit |-> UNIT_EMPTY],
      [id |-> ID_ENRR_FE,     name |-> NAME_ENRR_FE,     unit |-> UNIT_PERCENT],
      [id |-> ID_FCRF,        name |-> NAME_FCRF,        unit |-> UNIT_EMPTY],
      [id |-> ID_ELC,         name |-> NAME_ELC,         unit |-> UNIT_PERCENT] }

\* __init__: self.id2row = {row["id"]: row for _, row in ind_df.iterrows()}
MakeId2Row(rows) ==
    [i \in {r.id : r \in rows} |-> CHOOSE r \in rows : r.id = i]

\* BuildCandidates without the `if row is None: continue` of line 115
RECURSIVE BuildCandidates_KeepAbsent(_, _)
BuildCandidates_KeepAbsent(results, rows) ==
    IF results = <<>> THEN <<>>
    ELSE LET ind_id == Head(results)[1]
             row == IF ind_id \in DOMAIN rows THEN rows[ind_id]
                    ELSE [id |-> ind_id, name |-> <<>>, unit |-> <<>>]
         IN  <<[id       |-> row.id,
                name     |-> row.name,
                unit     |-> row.unit,
                semantic |-> Head(results)[2]]>>
             \o BuildCandidates_KeepAbsent(Tail(results), rows)

\* resolve, lines 112-126: the candidate list; ids absent from the
\* catalog are skipped
RECURSIVE BuildCandidates(_, _)
BuildCandidates(results, rows) ==
    IF results = <<>> THEN <<>>
    ELSE LET ind_id == Head(results)[1]
             semantic_score == Head(results)[2]
             rest == BuildCandidates(Tail(results), rows)
         IN  IF ind_id \notin DOMAIN rows THEN rest
             ELSE <<[id       |-> rows[ind_id].id,
                     name     |-> rows[ind_id].name,
                     unit     |-> rows[ind_id].unit,
                     semantic |-> semantic_score]>> \o rest

\* the loop of _apply_constraints without the `"rate" in name` escape of
\* line 163
RECURSIVE ConstraintLoop_NoRateEscape(_, _, _, _)
ConstraintLoop_NoRateEscape(cands, uq, sex, age) ==
    IF cands = <<>> THEN <<>>
    ELSE LET cand == Head(cands)
             rest == ConstraintLoop_NoRateEscape(Tail(cands), uq, sex, age)
         IN  IF "ppp" \in uq /\ ~is_ppp(cand.id, cand.name) THEN rest
             ELSE IF "growth_rate" \in uq /\ ~is_growth(cand.id, cand.name) THEN rest
             ELSE IF /\ "percent_share" \in uq
                     /\ ~is_percent(cand.id, cand.name, cand.unit) THEN rest
             ELSE IF ~has_sex(cand.id, sex) THEN rest
             ELSE IF ~has_age(cand.id, age) THEN rest
             ELSE <<cand>> \o rest

\* the loop of _apply_constraints without the has_age test of lines
\* 169-170
RECURSIVE ConstraintLoop_NoAgeTest(_, _, _, _)
ConstraintLoop_NoAgeTest(cands, uq, sex, age) ==
    IF cands = <<>> THEN <<>>
    ELSE LET cand == Head(cands)
             rest == ConstraintLoop_NoAgeTest(Tail(cands), uq, sex, age)
         IN  IF "ppp" \in uq /\ ~is_ppp(cand.id, cand.name) THEN rest
             ELSE IF "growth_rate" \in uq /\ ~is_growth(cand.id, cand.name) THEN rest
             ELSE IF /\ "percent_share" \in uq
                     /\ ~is_percent(cand.id, cand.name, cand.unit)
                     /\ ~Contains(Lower(cand.name), S_rate) THEN rest
             ELSE IF ~has_sex(cand.id, sex) THEN rest
             ELSE <<cand>> \o rest

\* _apply_constraints, lines 154-172: the loop over the candidates
RECURSIVE ConstraintLoop(_, _, _, _)
ConstraintLoop(cands, uq, sex, age) ==
    IF cands = <<>> THEN <<>>
    ELSE LET cand == Head(cands)
             rest == ConstraintLoop(Tail(cands), uq, sex, age)
         IN  IF "ppp" \in uq /\ ~is_ppp(cand.id, cand.name) THEN rest
             ELSE IF "growth_rate" \in uq /\ ~is_growth(cand.id, cand.name) THEN rest
             ELSE IF /\ "percent_share" \in uq
                     /\ ~is_percent(cand.id, cand.name, cand.unit)
                     /\ ~Contains(Lower(cand.name), S_rate) THEN rest
             ELSE IF ~has_sex(cand.id, sex) THEN rest
             ELSE IF ~has_age(cand.id, age) THEN rest
             ELSE <<cand>> \o rest

\* _apply_constraints with count_number treated as a hard filter
apply_constraints_CountHard(cands, sl) ==
    LET IsCount(cand) == "count_number" \notin QualifierSet(sl)
                         \/ is_count(cand.id, cand.unit)
    IN  SelectSeq(ConstraintLoop(cands, QualifierSet(sl), sl.sex, sl.age_band),
                  IsCount)

apply_constraints(cands, sl) ==
    ConstraintLoop(cands, QualifierSet(sl), sl.sex, sl.age_band)

\* the score weights, times 100
W_SEMANTIC == 45
W_UNIT == 25
W_DEMO == 15
W_PRIOR == 10

\* the prior boosts, times 100
PRIOR_ONE == 100
PRIOR_POP_TOTL == 200
PRIOR_POP == 80

Bit(b) == IF b THEN 1 ELSE 0

\* _score_candidates, lines 184-198
unit_match(cand, uq) ==
      Bit("ppp" \in uq /\ is_ppp(cand.id, cand.name))
    + Bit("growth_rate" \in uq /\ is_growth(cand.id, cand.name))
    + Bit("percent_share" \in uq /\ is_percent(cand.id, cand.name, cand.unit))
    + Bit("count_number" \in uq /\ is_count(cand.id, cand.unit))
    + Bit("constant_usd" \in uq /\ is_constant(cand.id, cand.name))
    + Bit("current_usd" \in uq /\ is_current_usd(cand.id, cand.name, cand.unit))
    + Bit("per_capita" \in uq /\ (\/ Contains(cand.id, S_PC)
                                  \/ Contains(Lower(cand.name), S_per_capita)))

\* lines 201-205
demo_match(cand, sex, age) ==
    Bit(has_sex(cand.id, sex)) + Bit(has_age(cand.id, age))

\* lines 208-219, in hundredths
prior(cand, concept, sex) ==
      (IF /\ concept \in {S_inflation, S_inflation_cpi}
          /\ \/ Contains(Lower(cand.name), S_consumer_prices)
             \/ cand.id = S_FP_CPI_TOTL_ZG
       THEN PRIOR_ONE ELSE 0)
    + (IF concept = S_gdp /\ StartsWith(cand.id, S_NY_GDP_MKTP)
       THEN PRIOR_ONE ELSE 0)
    + (IF concept = S_population
       THEN IF cand.id = S_SP_POP_TOTL /\ sex = "total" THEN PRIOR_POP_TOTL
            ELSE IF StartsWith(cand.id, S_SP_POP) THEN PRIOR_POP
            ELSE 0
       ELSE 0)

\* lines 222-228: 10000 * score (semantic is in hundredths)
Score(cand, sl) ==
    LET uq == QualifierSet(sl)
    IN    W_SEMANTIC * cand.semantic
        + W_UNIT * 100 * unit_match(cand, uq)
        + W_DEMO * 100 * demo_match(cand, sl.sex, sl.age_band)
        + W_PRIOR * prior(cand, Lower(sl.concept), sl.sex)

\* list.sort(key=score, reverse=True) is stable: an element goes behind
\* every element whose key is at least its own
\* an unstable descending sort: an element goes in front of its equals
InsertDesc_TiesReversed(sorted, x) ==
    LET n == Cardinality({i \in 1..Len(sorted) : sorted[i].score > x.score})
    IN  SubSeq(sorted, 1, n) \o <<x>> \o SubSeq(sorted, n + 1, Len(sorted))

InsertDesc(sorted, x) ==
    LET n == Cardinality({i \in 1..Len(sorted) : sorted[i].score >= x.score})
    IN  SubSeq(sorted, 1, n) \o <<x>> \o SubSeq(sorted, n + 1, Len(sorted))

RECURSIVE SortDescFrom(_, _)
SortDescFrom(sorted, rest) ==
    IF rest = <<>> THEN sorted
    ELSE SortDescFrom(InsertDesc(sorted, Head(rest)), Tail(rest))

SortDesc(s) == SortDescFrom(<<>>, s)

score_candidates(cands, sl) ==
    SortDesc([i \in 1..Len(cands) |->
                 [id       |-> cands[i].id,
                  name     |-> cands[i].name,
                  unit     |-> cands[i].unit,
                  semantic |-> cands[i].semantic,
                  score    |-> Score(cands[i], sl)]])

Max(a, b) == IF a >= b THEN a ELSE b

\* lines 139-141
ConfidenceMargin(sc) ==
    LET best == sc[1]
        second_score == IF Len(sc) > 1 THEN sc[2].score ELSE 0
    IN  Max(0, best.score - second_score)

Pending == [kind |-> "pending"]

\* IndicatorResolver.resolve(slots, search_results)
\* Each local is bound once (a singleton \E), as the code computes it once.
Resolve ==
    /\ result = Pending
    /\ slots # <<>>
    /\ \E cands \in {BuildCandidates(search_results, id2row)} :
       \E f \in {apply_constraints(cands, slots)} :
       \E query \in {build_query_terms(slots, set_reversed)} :
           /\ candidates' = cands
           /\ filtered' = f
           /\ IF f = <<>>
              THEN /\ scored' = <<>>
                   /\ result' = [kind |-> "error", query |-> query]
              ELSE \E sc \in {score_candidates(f, slots)} :
                       /\ scored' = sc
                       /\ result' = [kind |-> "ok",
                                     id   |-> sc[1].id,
                                     name |-> sc[1].name,
                                     unit |-> sc[1].unit,
                                     confidence_margin |-> ConfidenceMargin(sc),
                                     notes |-> [query |-> query,
                                                semantic |-> sc[1].semantic]]
    /\ UNCHANGED <<id2row, set_reversed, question, extraction, slots,
                   search_results>>
    /\ UNCHANGED <<callVars, fetchVars, answerVars>>

---------------------------------------------------------------------------
(* The inputs of resolve that are explored.                                *)

MaxResults == 2
MaxQualifiers == 2

\* sequences over S of length at most n
RECURSIVE SeqsUpTo(_, _)
SeqsUpTo(S, n) ==
    IF n = 0 THEN {<<>>}
    ELSE LET shorter == SeqsUpTo(S, n - 1)
         IN  shorter \cup {Append(s, x) : s \in {t \in shorter : Len(t) = n - 1}, x \in S}

\* the unit_qualifiers lists over the qualifiers in S, at most
\* MaxQualifiers long, each set once
QualifierLists(S) ==
    LET InList(uq) == LET In(x) == x \in uq IN SelectSeq(Qualifiers, In)
    IN  {InList(uq) : uq \in {u \in SUBSET S : Cardinality(u) <= MaxQualifiers}}

MakeSlots(concept, uql, sex, age) ==
    [country_text |-> <<>>, time_mode |-> "single", year |-> NoneInt,
     latest_n |-> NoneInt, concept |-> concept, unit_qualifiers |-> uql,
     sex |-> sex, age_band |-> age]

\* similarities, in hundredths
Semantics == {-100, 80}

\* no resolve call is running and none has returned
CallsIdle ==
    /\ requests = <<>>
    /\ heap = <<>>
    /\ frame = <<>>
    /\ returned = <<>>

\* fetch has not been called
FetchIdle ==
    /\ fetch_pc = "idle"
    /\ retries = 0
    /\ attempt = 0
    /\ last_error = "None"
    /\ log = <<>>
    /\ fetched = Pending

\* no response has been handed to parse_value
AnswerIdle ==
    /\ payload = <<>>
    /\ requested_year = NoneInt
    /\ parsed = Pending
    /\ answer = Pending

InitCommon ==
    /\ CallsIdle
    /\ FetchIdle
    /\ AnswerIdle
    /\ id2row = MakeId2Row(CatalogRows)
    /\ question = <<>>
    /\ extraction = <<>>
    /\ candidates = <<>>
    /\ filtered = <<>>
    /\ scored = <<>>
    /\ result = Pending

\* requests that exercise the constraint filter: every demographic
\* request against ids with and without sex and age markers
InitFilter ==
    /\ InitCommon
    /\ set_reversed = FALSE
    /\ slots \in {MakeSlots(S_gdp, u, d[1], d[2]) :
                    u \in QualifierLists({"ppp", "growth_rate", "percent_share",
                                          "per_capita", "count_number"}),
                    d \in {<<"total", "none">>, <<"female", "none">>,
                           <<"male", "none">>, <<"female", "65up">>}}
    /\ search_results \in
         SeqsUpTo({ID_GDP_CD, ID_GDP_PPP_KD, ID_GDP_ZG, ID_POP_65UP_FE,
                   ID_UEM_MA, ID_ENRR_FE, ID_FCRF} \X {80},
                  MaxResults)

\* requests that exercise the ranking: similarities, unit matches and
\* priors that differ between the candidates, and ids the catalog lacks;
\* and requests whose concept is cleaned away or reads 'unknown'
InitResolve ==
    /\ InitCommon
    /\ set_reversed \in BOOLEAN
    /\ slots \in {MakeSlots(c, u, s, "none") :
                    c \in {S_gdp, S_population},
                    u \in QualifierLists({"ppp", "constant_usd", "count_number"}),
                    s \in {"total", "female"}}
                \cup
                 {MakeSlots(c, u, "total", "none") :
                    c \in {S_female, S_unknown, X_unknown_padded},
                    u \in {<<>>, <<"count_number">>}}
    /\ search_results \in
         SeqsUpTo({ID_GDP_CD, ID_GDP_PPP_KD, ID_POP_TOTL, ID_POP_65UP_FE,
                   ID_ABSENT} \X Semantics,
                  MaxResults)

NextResolve == Resolve

SpecFilter == InitFilter /\ [][NextResolve]_vars

SpecResolve == InitResolve /\ [][NextResolve]_vars

---------------------------------------------------------------------------
(* Properties of the resolver.                                             *)

Returned == result # Pending /\ slots # <<>> /\ extraction = <<>>

\* the five conditions of the constraint filter, for one candidate
Keeps(cand, sl) ==
    LET uq == QualifierSet(sl)
    IN  /\ "ppp" \notin uq \/ is_ppp(cand.id, cand.name)
        /\ "growth_rate" \notin uq \/ is_growth(cand.id, cand.name)
        /\ \/ "percent_share" \notin uq
           \/ is_percent(cand.id, cand.name, cand.unit)
           \/ Contains(Lower(cand.name), S_rate)
        /\ has_sex(cand.id, sl.sex)
        /\ has_age(cand.id, sl.age_band)

\* the positions of the search results that survive: the id is in the
\* catalog and its row passes the filter
Survivors ==
    {i \in 1..Len(search_results) :
        /\ search_results[i][1] \in DOMAIN id2row
        /\ Keeps(id2row[search_results[i][1]], slots)}

\* C1 (as claimed): whenever resolve succeeds the confidence margin is
\* >= 0, and it is 0 when fewer than two candidates survived the filter.
C1_MarginZeroBelowTwoSurvivors ==
    (Returned /\ result.kind = "ok") =>
        /\ result.confidence_margin >= 0
        /\ Len(filtered) < 2 => result.confidence_margin = 0

\* C2: resolve raises exactly when no search result survives (the id is
\* absent from the catalog or the row fails the filter), the error carries
\* build_query_terms(slots), and otherwise resolve returns a result.
C2_RaisesIffNoSurvivor ==
    Returned =>
        /\ result.kind \in {"ok", "error"}
        /\ result.kind = "error" <=> Survivors = {}
        /\ result.kind = "error" =>
               result.query = build_query_terms(slots, set_reversed)

\* C2 witness: resolve raised on a list of two results, one whose id the
\* catalog lacks and one that the filter rejected.
C2_Witness ==
    /\ Returned
    /\ result.kind = "error"
    /\ Len(search_results) = 2
    /\ Len(candidates) = 1
    /\ result.query # <<>>

\* C3: _apply_constraints returns the candidates that satisfy the five
\* conditions, in their incoming order, each as often as it came in.
C3_FilterIsSelection ==
    Returned =>
        LET Keep(cand) == Keeps(cand, slots)
        IN  filtered = SelectSeq(candidates, Keep)

\* C3 witness: with two hard qualifiers requested, one of two candidates
\* was rejected and the other kept.
C3_Witness ==
    /\ Returned
    /\ Len(candidates) = 2
    /\ Len(filtered) = 1
    /\ Cardinality(QualifierSet(slots) \cap {"ppp", "growth_rate", "percent_share"}) = 2

\* C4 (as claimed): a Total request keeps no candidate whose id has_sex
\* accepts for female or for male.
C4_TotalRejectsSexSpecific ==
    (Returned /\ slots.sex = "total") =>
        \A i \in 1..Len(filtered) :
            ~(has_sex(filtered[i].id, "female") \/ has_sex(filtered[i].id, "male"))

WithoutScore(c) ==
    [id |-> c.id, name |-> c.name, unit |-> c.unit, semantic |-> c.semantic]

\* C5: the ranking is the stable descending sort of the survivors by
\* 0.45 semantic + 0.25 unitMatch + 0.15 demoMatch + 0.10 prior, and the
\* answer is the first survivor, in retrieval order, of the highest score.
C5_BestIsFirstOfHighestScore ==
    (Returned /\ result.kind = "ok") =>
        LET top   == CHOOSE v \in {Score(filtered[i], slots) : i \in 1..Len(filtered)} :
                         \A i \in 1..Len(filtered) : Score(filtered[i], slots) <= v
            first == CHOOSE i \in 1..Len(filtered) :
                         /\ Score(filtered[i], slots) = top
                         /\ \A j \in 1..(i - 1) : Score(filtered[j], slots) # top
        IN  /\ result.id = filtered[first].id
            /\ result.name = filtered[first].name
            /\ result.unit = filtered[first].unit
            /\ result.notes.semantic = filtered[first].semantic
            /\ Len(scored) = Len(filtered)
            /\ \A i \in 1..Len(scored) : scored[i].score = Score(WithoutScore(scored[i]), slots)
            /\ \A i \in 1..(Len(scored) - 1) : scored[i].score >= scored[i + 1].score
            /\ \A v \in {scored[i].score : i \in 1..Len(scored)} :
                   LET HasV(c) == c.score = v
                       ScoresV(c) == Score(c, slots) = v
                       sv == SelectSeq(scored, HasV)
                   IN  [i \in 1..Len(sv) |-> WithoutScore(sv[i])]
                           = SelectSeq(filtered, ScoresV)

\* C5 witness: two different survivors tie for the highest score.
C5_Witness ==
    /\ Returned
    /\ result.kind = "ok"
    /\ Len(scored) >= 2
    /\ scored[1].score = scored[2].score
    /\ scored[1].id # scored[2].id

SoftQualifiers == {"per_capita", "constant_usd", "current_usd", "count_number"}

WithQualifier(sl, q) ==
    [sl EXCEPT !.unit_qualifiers =
        IF q \in QualifierSet(sl) THEN @ ELSE Append(@, q)]

WithoutQualifier(sl, q) ==
    LET Other(x) == x # q
    IN  [sl EXCEPT !.unit_qualifiers = SelectSeq(@, Other)]

\* C6: adding or removing per_capita, constant_usd, current_usd or
\* count_number in the request leaves the output of _apply_constraints
\* unchanged.
C6_SoftQualifiersDoNotFilter ==
    Returned =>
        \A q \in SoftQualifiers :
            /\ apply_constraints(candidates, WithQualifier(slots, q)) = filtered
            /\ apply_constraints(candidates, WithoutQualifier(slots, q)) = filtered

\* C6 witness: count_number was requested and a candidate that is not a
\* count survived.
C6_Witness ==
    /\ Returned
    /\ "count_number" \in QualifierSet(slots)
    /\ \E i \in 1..Len(filtered) : ~is_count(filtered[i].id, filtered[i].unit)

\* the query string resolve reports, in the error or in the notes
ReportedQuery ==
    IF result.kind = "error" THEN result.query ELSE result.notes.query

\* no token is emitted: no token-producing qualifier, sex total, age band
\* none, and a cleaned concept that is empty or reads 'unknown'
NoToken ==
    /\ slots.sex = "total"
    /\ slots.age_band = "none"
    /\ \A x \in QualifierSet(slots) : QualifierToken(x) = <<>>
    /\ slots.concept \in DOMAIN CleanedConcepts
    /\ CleanedConcepts[slots.concept] \in {<<>>, S_unknown}

\* C13 (as claimed): when no token is emitted, build_query_terms returns
\* the raw concept string of the slots.
C13_FallbackIsRawConcept ==
    (Returned /\ NoToken) => ReportedQuery = slots.concept

\* C17: every candidate that resolve scores passed the filter with the
\* same slots, so has_sex and has_age hold for it, its demo_match is 2,
\* and the demographic term of its score is 0.15 * 2 = 0.30 (3000 in
\* units of 1/10000).
C17_DemoMatchIsTwoAfterFilter ==
    Returned =>
        \A i \in 1..Len(scored) :
            /\ has_sex(scored[i].id, slots.sex)
            /\ has_age(scored[i].id, slots.age_band)
            /\ demo_match(scored[i], slots.sex, slots.age_band) = 2
            /\ scored[i].score
                 = W_SEMANTIC * scored[i].semantic
                   + W_UNIT * 100 * unit_match(scored[i], QualifierSet(slots))
                   + 3000
                   + W_PRIOR * prior(scored[i], Lower(slots.concept), slots.sex)

\* C17 witness: a request for females of 65 and above; of two candidates
\* with the female marker, the one without the age marker was filtered
\* out and the other was scored.
C17_Witness ==
    /\ Returned
    /\ slots.sex = "female"
    /\ slots.age_band = "65up"
    /\ Len(candidates) = 2
    /\ \E i \in 1..2 : /\ has_sex(candidates[i].id, "female")
                       /\ ~has_age(candidates[i].id, "65up")
    /\ Len(scored) = 1
    /\ demo_match(scored[1], slots.sex, slots.age_band) = 2

---------------------------------------------------------------------------
(* parser.py, QuestionParser._parse_with_dspy.                             *)

\* characters that str.isdigit() accepts and int() rejects (superscript and
\* circled digits); one token stands for each character
NonDecimalDigits == {"superscript-two"}

\* str.isdigit()
IsDigit(s) ==
    s # <<>> /\ \A i \in 1..Len(s) : s[i] \in Digits \cup NonDecimalDigits

\* int(s) raises ValueError
IntRaises(s) == s = <<>> \/ \E i \in 1..Len(s) : s[i] \notin Digits

DigitValue(c) ==
    CASE c = "0" -> 0 [] c = "1" -> 1 [] c = "2" -> 2 [] c = "3" -> 3
      [] c = "4" -> 4 [] c = "5" -> 5 [] c = "6" -> 6 [] c = "7" -> 7
      [] c = "8" -> 8 [] c = "9" -> 9

\* int(s) of a string of digits
RECURSIVE IntOf(_)
IntOf(s) ==
    IF s = <<>> THEN 0
    ELSE 10 * IntOf(SubSeq(s, 1, Len(s) - 1)) + DigitValue(s[Len(s)])

\* lines 37-38: a field that reads 'none' becomes None (here <<>>: the
\* code reads it back as `parsed.get(...) or ''`)
NoneIfNone(field) ==
    IF Lower(Strip(field)) # S_none THEN Strip(field) ELSE <<>>

\* lines 46-49
NormConcept(q, ex) ==
    IF Contains(q, S_cpi) \/ Contains(q, S_consumer_price_index)
    THEN S_inflation_cpi
    ELSE ReplaceChar(Lower(Strip(ex.concept)), " ", "_")

\* lines 55-56: the conversion of the year raises
YearRaises(year_str) ==
    year_str # <<>> /\ IsDigit(year_str) /\ IntRaises(year_str)

\* lines 51-59: <<time_mode, year, latest_n>>
TimeOf(q, year_str) ==
    IF year_str # <<>> /\ IsDigit(year_str)
    THEN <<"single", IntOf(year_str), NoneInt>>
    ELSE IF Contains(q, S_latest) \/ Contains(q, S_most_recent)
    THEN <<"latest_n", NoneInt, 1>>
    ELSE <<"single", NoneInt, NoneInt>>

\* line 64
has_growth(q) ==
    Contains(q, S_growth_rate) \/ Contains(q, S_growth) \/ Contains(q, S_yoy)

If(b, x) == IF b THEN <<x>> ELSE <<>>

\* lines 71-75 with the guard removed
CurrencyQualifiers_Ungated(q, unit) ==
       If(Contains(unit, S_constant) \/ Contains(unit, S_real), "constant_usd")
    \o If(\/ Contains(unit, S_current)
          \/ Contains(unit, S_nominal)
          \/ Contains(unit, S_usd), "current_usd")

\* lines 71-75
CurrencyQualifiers(q, unit) ==
    IF ~has_growth(q)
    THEN    If(Contains(unit, S_constant) \/ Contains(unit, S_real), "constant_usd")
         \o If(\/ Contains(unit, S_current)
               \/ Contains(unit, S_nominal)
               \/ Contains(unit, S_usd), "current_usd")
    ELSE <<>>

\* lines 77-84
RateQualifiers(q, unit) ==
    IF has_growth(q) THEN <<"growth_rate">>
    ELSE IF Contains(unit, S_pct) \/ Contains(unit, S_percent)
    THEN <<"percent_share">>
    ELSE IF Contains(q, S_space_rate)
    THEN If(/\ ~Contains(q, S_unemployment)
            /\ ~Contains(q, S_inflation)
            /\ ~Contains(q, S_cpi), "percent_share")
    ELSE <<>>

\* lines 61-84: unit_qualifiers before the demographic rules
BaseQualifiers(q, unit) ==
       If(Contains(unit, S_per_capita) \/ Contains(q, S_per_capita), "per_capita")
    \o If(Contains(unit, S_ppp) \/ Contains(q, S_ppp), "ppp")
    \o CurrencyQualifiers(q, unit)
    \o RateQualifiers(q, unit)

\* any(x in s for x in words)
AnyIn(s, words) == \E w \in words : Contains(s, w)

\* line 90
is_demographic_concept(concept) ==
    AnyIn(concept, {S_population, S_unemployment, S_life_expectancy})

\* line 94
TotalPhrase(q) ==
    \/ Contains(q, S_total_population)
    \/ Contains(q, S_total_pop)
    \/ Contains(q, S_population) /\ Contains(q, S_total)

\* lines 96 and 108: not any(x in q for x in [...])
NoShareWording(q) ==
    ~AnyIn(q, {S_growth, S_pct, S_percent, S_share, S_ratio})

FemaleWords == {S_female, S_females, S_women, S_woman, S_girls}
MaleWords == {S_male, S_males, S_men, S_man, S_boys}

\* lines 92-106 without the test of line 92
SexOf_Ungated(q, concept, demographics) ==
    IF TotalPhrase(q) THEN "total"
    ELSE IF AnyIn(q, FemaleWords) THEN "female"
    ELSE IF AnyIn(q, MaleWords) /\ ~AnyIn(q, {S_female, S_females}) THEN "male"
    ELSE IF Contains(demographics, S_female) \/ Contains(demographics, S_women)
    THEN "female"
    ELSE IF /\ Contains(demographics, S_male) \/ Contains(demographics, S_men)
            /\ ~Contains(demographics, S_female)
    THEN "male"
    ELSE "total"

\* lines 87-106: sex
SexOf(q, concept, demographics) ==
    IF ~is_demographic_concept(concept) THEN "total"
    ELSE IF TotalPhrase(q) THEN "total"
    ELSE IF AnyIn(q, FemaleWords) THEN "female"
    ELSE IF AnyIn(q, MaleWords) /\ ~AnyIn(q, {S_female, S_females}) THEN "male"
    ELSE IF Contains(demographics, S_female) \/ Contains(demographics, S_women)
    THEN "female"
    ELSE IF /\ Contains(demographics, S_male) \/ Contains(demographics, S_men)
            /\ ~Contains(demographics, S_female)
    THEN "male"
    ELSE "total"

\* lines 94-98 and 108-110: count_number is appended once, by the total
\* phrasing branch or by the population catch-all
CountQualifiers(uq, q, concept, sex) ==
    LET byPhrase == /\ is_demographic_concept(concept)
                    /\ TotalPhrase(q)
                    /\ NoShareWording(q)
        byConcept == /\ Contains(concept, S_population)
                     /\ sex = "total"
                     /\ NoShareWording(q)
        IsCountNumber(x) == x = "count_number"
    IN  IF (byPhrase \/ byConcept) /\ SelectSeq(uq, IsCountNumber) = <<>>
        THEN Append(uq, "count_number")
        ELSE uq

\* lines 112-116
AgeBandOf(demographics) ==
    IF Contains(demographics, S_15_24) \/ Contains(demographics, S_15_24_mojibake)
    THEN "1524"
    ELSE IF /\ Contains(demographics, S_65)
            /\ AnyIn(demographics, {S_plus, S_plus_word, S_over, S_above})
    THEN "65up"
    ELSE "none"

\* the ValueError of int(year_str), which _parse_with_dspy lets through
ValueError == [raised |-> "ValueError"]

\* lines 118-130: the slots returned
ResultSlots(ex, time, concept, uq, sex, demographics) ==
    [country_text |-> Strip(ex.country),
     time_mode |-> time[1],
     year |-> time[2],
     start_year |-> NoneInt,
     end_year |-> NoneInt,
     latest_n |-> time[3],
     concept |-> concept,
     unit_qualifiers |-> uq,
     sex |-> sex,
     age_band |-> AgeBandOf(demographics)]

\* lines 86-130, given the concept and the demographics text
SlotsOf(q, ex, time, concept, uq, demographics) ==
    ResultSlots(ex, time, concept,
                CountQualifiers(uq, q, concept,
                                SexOf(q, concept, demographics)),
                SexOf(q, concept, demographics), demographics)

\* lines 44-130, given the lower-cased question
ParseLowered(q, ex) ==
    IF YearRaises(Strip(ex.year)) THEN ValueError
    ELSE SlotsOf(q, ex, TimeOf(q, Strip(ex.year)), NormConcept(q, ex),
                 BaseQualifiers(q, Lower(NoneIfNone(ex.unit))),
                 Lower(NoneIfNone(ex.demographics)))

\* _parse_with_dspy(question), given the predictor's result
parse_with_dspy(quest, ex) == ParseLowered(Lower(quest), ex)

\* QuestionParser.parse(question)
Parse ==
    /\ slots = <<>>
    /\ extraction # <<>>
    /\ \E sl \in {parse_with_dspy(question, extraction)} : slots' = sl
    /\ UNCHANGED <<id2row, set_reversed, question, extraction, search_results,
                   candidates, filtered, scored, result>>
    /\ UNCHANGED <<callVars, fetchVars, answerVars>>

---------------------------------------------------------------------------
(* The questions and extractions that are explored.                        *)

MaxWords == 2

\* the words a question is made of, in the order they appear in it
Vocabulary ==
    <<Q_GDP, Q_total, Q_population, Q_unemployment, Q_Growth, Q_yoy, Q_rate,
      Q_share, Q_women, Q_male, Q_CPI, Q_latest, Q_most_recent>>

\* the questions of at most MaxWords words of the vocabulary, the words
\* separated by one space
Questions ==
    LET Text(ws) == LET In(w) == w \in ws IN Join(SelectSeq(Vocabulary, In))
    IN  {Text(ws) : ws \in {v \in SUBSET {Vocabulary[i] : i \in 1..Len(Vocabulary)} :
                              Cardinality(v) <= MaxWords}}

Extractions ==
    [country : {X_India},
     concept : {X_GDP, X_Population, X_Unemployment_rate, X_Life_expectancy},
     year : {X_2022, X_none, X_2022_superscript},
     unit : {X_None, X_Constant_USD, X_pct},
     demographics : {X_none, X_Female_65, X_men_15_24}]

\* the request of test_api.py, line 65, and what the predictor makes of it
ScenarioExtractions ==
    [country : {X_Saudi_Arabia},
     concept : {X_Labor_force_participation_rate},
     year : {X_2022},
     unit : {X_none, X_pct},
     demographics : {X_none, X_Female_65}]

InitParse ==
    /\ CallsIdle
    /\ FetchIdle
    /\ AnswerIdle
    /\ id2row = MakeId2Row(CatalogRows)
    /\ set_reversed = FALSE
    /\ \/ question \in Questions /\ extraction \in Extractions
       \/ question = Q_ScenarioC /\ extraction \in ScenarioExtractions
    /\ slots = <<>>
    /\ search_results = <<>>
    /\ candidates = <<>>
    /\ filtered = <<>>
    /\ scored = <<>>
    /\ result = Pending

NextParse == Parse

SpecParse == InitParse /\ [][NextParse]_vars

---------------------------------------------------------------------------
(* Properties of the slot normaliser.                                      *)

Parsed == slots # <<>> /\ slots # ValueError /\ extraction # <<>>

\* the lower-cased question, unit text and demographics text that
\* _parse_with_dspy works on
QuestionText == Lower(question)
UnitText == Lower(NoneIfNone(extraction.unit))
DemographicsText == Lower(NoneIfNone(extraction.demographics))

\* C7: growth_rate never comes with constant_usd or current_usd.
C7_GrowthExcludesCurrency ==
    Parsed =>
        ~ /\ "growth_rate" \in QualifierSet(slots)
          /\ \/ "constant_usd" \in QualifierSet(slots)
             \/ "current_usd" \in QualifierSet(slots)

\* C7 witness: a question with growth wording whose unit text names a
\* currency basis was normalised to growth_rate.
C7_Witness ==
    /\ Parsed
    /\ "growth_rate" \in QualifierSet(slots)
    /\ Contains(UnitText, S_constant)
    /\ Contains(UnitText, S_usd)

\* C8 (as claimed): count_number comes only with sex = total and without
\* growth_rate and percent_share.
C8_CountOnlyWithTotalAndNoRate ==
    (Parsed /\ "count_number" \in QualifierSet(slots)) =>
        /\ slots.sex = "total"
        /\ "growth_rate" \notin QualifierSet(slots)
        /\ "percent_share" \notin QualifierSet(slots)

\* C9 (as claimed): without growth wording and without '%'/'percent' in
\* the unit text, percent_share is added exactly when the question
\* contains ' rate' and the concept contains none of 'unemployment',
\* 'inflation', 'cpi'.
C9_RateBranchLooksAtConcept ==
    (/\ Parsed
     /\ ~has_growth(QuestionText)
     /\ ~Contains(UnitText, S_pct)
     /\ ~Contains(UnitText, S_percent)) =>
        ("percent_share" \in QualifierSet(slots)
            <=> /\ Contains(QuestionText, S_space_rate)
                /\ ~AnyIn(slots.concept, {S_unemployment, S_inflation, S_cpi}))

\* C10: a concept that contains none of 'population', 'unemployment',
\* 'life_expectancy' is normalised to sex = total.
C10_NonDemographicIsTotal ==
    (Parsed /\ ~AnyIn(slots.concept, {S_population, S_unemployment, S_life_expectancy})) =>
        slots.sex = "total"

\* C10 witness: a non-demographic concept, asked about with a gender word
\* in the question and a gender in the demographics field.
C10_Witness ==
    /\ Parsed
    /\ ~AnyIn(slots.concept, {S_population, S_unemployment, S_life_expectancy})
    /\ AnyIn(QuestionText, FemaleWords)
    /\ Contains(DemographicsText, S_men)
    /\ slots.sex = "total"

\* w occurs in s as a word: an occurrence with no word character on
\* either side
NamesWord(s, w) ==
    \E i \in 1..(Len(s) - Len(w) + 1) :
        /\ \A j \in 1..Len(w) : s[i + j - 1] = w[j]
        /\ WordStart(s, i)
        /\ i + Len(w) > Len(s) \/ ~IsWordChar(s[i + Len(w)])

\* C11 (as claimed): for a demographic concept, with the demographics
\* field absent and no female or male term occurring as a word in the
\* question, the normalised sex is total.
C11_NoGenderSignalIsTotal ==
    (/\ Parsed
     /\ is_demographic_concept(slots.concept)
     /\ DemographicsText = <<>>
     /\ \A w \in FemaleWords \cup MaleWords : ~NamesWord(QuestionText, w)) =>
        slots.sex = "total"

\* the request of scenario C: its question, the labor force participation
\* rate as the extracted concept, no unit and no demographics
ScenarioC ==
    /\ Parsed
    /\ question = Q_ScenarioC
    /\ slots.concept = ReplaceChar(Lower(X_Labor_force_participation_rate), " ", "_")
    /\ UnitText = <<>>
    /\ DemographicsText = <<>>

\* C12 (as claimed): scenario C is normalised to percent_share and
\* sex = female.
C12_ScenarioCIsFemalePercentShare ==
    ScenarioC =>
        /\ "percent_share" \in QualifierSet(slots)
        /\ slots.sex = "female"

\* the year field _parse_with_dspy works on
YearText == Strip(extraction.year)

\* C14 (as claimed): a year field that is a string of digits (isdigit)
\* gives time_mode single with that year, whatever the question says;
\* otherwise 'latest' or 'most recent' in the question gives latest_n
\* with latest_n = 1; otherwise single with no year; start_year and
\* end_year are None throughout.
C14_TimeModeFollowsYearThenLatest ==
    (slots # <<>> /\ extraction # <<>>) =>
        /\ slots # ValueError
        /\ slots.start_year = NoneInt
        /\ slots.end_year = NoneInt
        /\ IF IsDigit(YearText)
           THEN /\ slots.time_mode = "single"
                /\ slots.year = IntOf(YearText)
           ELSE IF \/ Contains(QuestionText, S_latest)
                   \/ Contains(QuestionText, S_most_recent)
           THEN /\ slots.time_mode = "latest_n"
                /\ slots.latest_n = 1
           ELSE /\ slots.time_mode = "single"
                /\ slots.year = NoneInt

---------------------------------------------------------------------------
(* resolver.py: several resolve calls on one IndicatorResolver, their      *)
(* steps interleaved.  The candidate dictionaries live on a heap, and the  *)
(* lists of a call hold their addresses, as the Python lists hold          *)
(* references.                                                             *)

\* the threads that call resolve
Callers == {"a", "b"}

\* how often each of them calls
MaxCalls == 2

\* the locals of a call that is not running
IdleFrame == [pc |-> "idle", candidates |-> <<>>, filtered |-> <<>>, i |-> 0]

\* the address of a newly created dictionary
NewAddress(h) ==
    CHOOSE a \in 1..(Cardinality(DOMAIN h) + 1) :
        a \notin DOMAIN h /\ \A b \in 1..(a - 1) : b \in DOMAIN h

\* one dictionary per indicator id, kept by the resolver and updated by
\* each call, instead of a new dictionary per search result
NewCandidate_SharedById(h, row, semantic_score) ==
    IF \E a \in DOMAIN h : h[a].id = row.id
    THEN LET a == CHOOSE b \in DOMAIN h : h[b].id = row.id
         IN  [addr |-> a, rec |-> [h[a] EXCEPT !.semantic = semantic_score]]
    ELSE [addr |-> NewAddress(h),
          rec  |-> [id       |-> row.id,
                    name     |-> row.name,
                    unit     |-> row.unit,
                    semantic |-> semantic_score]]

\* lines 116-124: candidates.append({...}) creates a dictionary; it has no
\* 'score' key yet
NewCandidate(h, row, semantic_score) ==
    [addr |-> NewAddress(h),
     rec  |-> [id       |-> row.id,
               name     |-> row.name,
               unit     |-> row.unit,
               semantic |-> semantic_score]]

\* the heap with record rec at address a
Put(h, a, rec) == [x \in DOMAIN h \cup {a} |-> IF x = a THEN rec ELSE h[x]]

\* resolve, lines 111-124, on the heap: the heap after the loop and the
\* addresses appended to candidates
RECURSIVE BuildOnHeap(_, _, _, _)
RECURSIVE BuildWith(_, _, _, _, _)
BuildWith(results, rows, h, addrs, new) ==
    BuildOnHeap(Tail(results), rows, Put(h, new.addr, new.rec),
                Append(addrs, new.addr))

BuildOnHeap(results, rows, h, addrs) ==
    IF results = <<>> THEN [heap |-> h, candidates |-> addrs]
    ELSE IF Head(results)[1] \notin DOMAIN rows
    THEN BuildOnHeap(Tail(results), rows, h, addrs)
    ELSE BuildWith(results, rows, h, addrs,
                   NewCandidate(h, rows[Head(results)[1]], Head(results)[2]))

\* a loop that takes the results off the list it iterates
AfterIteration_Consumed(results) == <<>>

\* line 112: `for ind_id, semantic_score in search_results` leaves the
\* caller's list as it is
AfterIteration(results) == results

\* line 228: cand["score"] = ...
WithScore(rec, score) ==
    [f \in DOMAIN rec \cup {"score"} |-> IF f = "score" THEN score ELSE rec[f]]

\* the dictionaries that some running call still refers to
Referenced(h, fr) ==
    [a \in {b \in DOMAIN h :
              \E c \in DOMAIN fr :
                  \E k \in 1..Len(fr[c].candidates) : fr[c].candidates[k] = b}
       |-> h[a]]

\* lines 135-146: what resolve returns for the ranked list
BestOf(sc, query) ==
    [kind |-> "ok",
     id   |-> sc[1].id,
     name |-> sc[1].name,
     unit |-> sc[1].unit,
     confidence_margin |-> ConfidenceMargin(sc),
     notes |-> [query |-> query, semantic |-> sc[1].semantic]]

\* resolve, lines 111-126: a caller enters resolve and builds its
\* candidate list
CallResolve(c) ==
    /\ frame[c].pc = "idle"
    /\ Len(returned[c]) < MaxCalls
    /\ \E b \in {BuildOnHeap(requests[c].search_results, id2row, heap, <<>>)} :
           /\ heap' = b.heap
           /\ frame' = [frame EXCEPT ![c] = [pc |-> "filter",
                                             candidates |-> b.candidates,
                                             filtered |-> <<>>,
                                             i |-> 0]]
    /\ requests' = [requests EXCEPT ![c].search_results = AfterIteration(@)]
    /\ UNCHANGED <<returned, resolveVars, fetchVars, answerVars>>

\* resolve, lines 129-133: _apply_constraints, and the ValueError when
\* nothing is left
ApplyConstraints(c) ==
    /\ frame[c].pc = "filter"
    /\ LET Keep(a) == apply_constraints(<<heap[a]>>, requests[c].slots) # <<>>
       IN  \E f \in {SelectSeq(frame[c].candidates, Keep)} :
               IF f = <<>>
               THEN /\ returned' =
                         [returned EXCEPT ![c] =
                             Append(@, [kind  |-> "error",
                                        query |-> build_query_terms(requests[c].slots,
                                                                    set_reversed)])]
                    /\ frame' = [frame EXCEPT ![c] = IdleFrame]
                    /\ heap' = Referenced(heap, [frame EXCEPT ![c] = IdleFrame])
               ELSE /\ frame' = [frame EXCEPT ![c].pc = "score",
                                              ![c].filtered = f,
                                              ![c].i = 1]
                    /\ UNCHANGED <<heap, returned>>
    /\ UNCHANGED <<requests, resolveVars, fetchVars, answerVars>>

\* _score_candidates, lines 182-228: one turn of the loop
ScoreCandidate(c) ==
    /\ frame[c].pc = "score"
    /\ frame[c].i <= Len(frame[c].filtered)
    /\ heap' = [heap EXCEPT ![frame[c].filtered[frame[c].i]] =
                                WithScore(@, Score(@, requests[c].slots))]
    /\ frame' = [frame EXCEPT ![c].i = @ + 1]
    /\ UNCHANGED <<requests, returned, resolveVars, fetchVars, answerVars>>

\* _score_candidates, lines 230-231, and resolve, lines 138-146: the sort
\* and the return of the best candidate
ReturnBest(c) ==
    /\ frame[c].pc = "score"
    /\ frame[c].i > Len(frame[c].filtered)
    /\ \E sc \in {SortDesc([k \in 1..Len(frame[c].filtered) |->
                               heap[frame[c].filtered[k]]])} :
           returned' =
               [returned EXCEPT ![c] =
                   Append(@, BestOf(sc, build_query_terms(requests[c].slots,
                                                          set_reversed)))]
    /\ frame' = [frame EXCEPT ![c] = IdleFrame]
    /\ heap' = Referenced(heap, [frame EXCEPT ![c] = IdleFrame])
    /\ UNCHANGED <<requests, resolveVars, fetchVars, answerVars>>

\* the similarities of one request
CallResults ==
    { <<>>,
      << <<ID_GDP_CD, 80>> >>,
      << <<ID_ABSENT, 80>>, <<ID_GDP_PPP_KD, 80>> >>,
      << <<ID_GDP_CD, -100>>, <<ID_GDP_PPP_KD, 80>> >>,
      << <<ID_GDP_PPP_KD, 80>>, <<ID_GDP_CD, 80>> >> }

\* what the callers pass: the same or different slots and result lists
CallInputs ==
    [slots : {MakeSlots(S_gdp, <<>>, "total", "none"),
              MakeSlots(S_gdp, <<"ppp", "constant_usd">>, "total", "none")},
     search_results : CallResults]

InitCalls ==
    /\ FetchIdle
    /\ AnswerIdle
    /\ id2row = MakeId2Row(CatalogRows)
    /\ set_reversed \in BOOLEAN
    /\ question = <<>>
    /\ extraction = <<>>
    /\ slots = <<>>
    /\ search_results = <<>>
    /\ candidates = <<>>
    /\ filtered = <<>>
    /\ scored = <<>>
    /\ result = Pending
    /\ requests \in [Callers -> CallInputs]
    /\ heap = <<>>
    /\ frame = [c \in Callers |-> IdleFrame]
    /\ returned = [c \in Callers |-> <<>>]

NextCalls ==
    \E c \in Callers :
        \/ CallResolve(c)
        \/ ApplyConstraints(c)
        \/ ScoreCandidate(c)
        \/ ReturnBest(c)

SpecCalls == InitCalls /\ [][NextCalls]_vars

---------------------------------------------------------------------------
(* Properties of interleaved resolve calls.                                *)

\* what resolve gives for one request when no other call runs
ResolveAlone(sl, results, reversed) ==
    LET f == apply_constraints(BuildCandidates(results, MakeId2Row(CatalogRows)), sl)
    IN  IF f = <<>>
        THEN [kind |-> "error", query |-> build_query_terms(sl, reversed)]
        ELSE BestOf(score_candidates(f, sl), build_query_terms(sl, reversed))

\* ResolveAlone of the requests explored, computed once
AloneResults ==
    [inp \in CallInputs, reversed \in BOOLEAN |->
        ResolveAlone(inp.slots, inp.search_results, reversed)]

\* the addresses a caller's running call refers to
AddressesOf(c) ==
    {frame[c].candidates[k] : k \in 1..Len(frame[c].candidates)}

\* C15: calls with identical slots and identical search results return
\* identical results (or raise the same error), whichever caller makes
\* them, in whatever order, and whatever other calls run in between.
C15_SameRequestSameResult ==
    \A c \in DOMAIN requests : \A d \in DOMAIN requests :
        requests[c] = requests[d] =>
            \A i \in 1..Len(returned[c]) : \A j \in 1..Len(returned[d]) :
                returned[c][i] = returned[d][j]

\* C15 witness: two callers with the same request; one has made all its
\* calls and got a result, the other has returned once and is in the
\* middle of its next call.
C15_Witness ==
    /\ requests # <<>>
    /\ requests["a"] = requests["b"]
    /\ Len(requests["a"].search_results) = 2
    /\ Len(returned["a"]) = MaxCalls
    /\ returned["a"][1].kind = "ok"
    /\ Len(returned["b"]) = 1
    /\ frame["b"].pc = "score"

\* the state part of C16: the catalog mapping is as built, every live
\* dictionary belongs to exactly one call, only a call's own scoring loop
\* has attached a score, and every result is the one the request gets
\* alone
NoSharing ==
    /\ id2row = MakeId2Row(CatalogRows)
    /\ \A a \in DOMAIN heap :
           /\ Cardinality({c \in DOMAIN frame : a \in AddressesOf(c)}) = 1
           /\ "score" \in DOMAIN heap[a] =>
                  \E c \in DOMAIN frame :
                      /\ frame[c].pc = "score"
                      /\ \E k \in 1..(frame[c].i - 1) : frame[c].filtered[k] = a
    /\ \A c \in DOMAIN requests :
           \A i \in 1..Len(returned[c]) :
               returned[c][i] = AloneResults[requests[c], set_reversed]

\* C16: no step of resolve changes id2row, the slots or the search
\* results it was given, a score is attached only to dictionaries the
\* call created itself, and under every interleaving each request gets
\* the result it gets alone.
C16_NoSharedMutableState ==
    /\ []NoSharing
    /\ [][id2row' = id2row /\ requests' = requests]_vars

\* C16 witness: both callers are inside _score_candidates at once, each
\* having scored a dictionary of its own for the same indicator.
C16_Witness ==
    /\ requests # <<>>
    /\ frame["a"].pc = "score" /\ frame["a"].i = 2
    /\ frame["b"].pc = "score" /\ frame["b"].i = 2
    /\ heap[frame["a"].filtered[1]].id = heap[frame["b"].filtered[1]].id
    /\ frame["a"].filtered[1] # frame["b"].filtered[1]
    /\ "score" \in DOMAIN heap[frame["a"].filtered[1]]
    /\ "score" \in DOMAIN heap[frame["b"].filtered[1]]
    /\ requests["a"].search_results # requests["b"].search_results

---------------------------------------------------------------------------
(* api_client.py, WorldBankClient.fetch.                                   *)

MaxRetries == 2

\* what requests.get gives: a response with a status and a body, or an
\* exception; the body of a 200 response is JSON text or is not
Responses ==
    { [status |-> 200, body |-> "payload-1"],
      [status |-> 200, body |-> "payload-2"],
      [status |-> 200, body |-> "not-json"],
      [status |-> 404, body |-> "not-json"],
      [status |-> 500, body |-> "not-json"] }

Exceptions == {"Request timeout", "Connection refused"}

\* response.json() raises: requests' JSONDecodeError, a RequestException
\* from requests 2.27 on and a plain ValueError before
JsonRaises(response) == response.body = "not-json"

\* line 26: f"HTTP {response.status_code}"
HttpError(status) ==
    CASE status = 404 -> "HTTP 404"
      [] status = 500 -> "HTTP 500"
      [] OTHER -> "HTTP"

\* line 38: wait_time = 0.5 * (2 ** attempt), in milliseconds
WaitTime(n) == 500 * 2^n

\* lines 20-35: one requests.get and what the try block makes of it; the
\* 200 response whose body is not JSON is caught by line 33 or leaves
\* fetch as a ValueError, as the requests version has it
FetchGet ==
    /\ fetch_pc = "get"
    /\ \/ \E response \in Responses :
             /\ log' = Append(log, [event |-> "get", status |-> response.status,
                                    body |-> response.body])
             /\ IF response.status = 200
                THEN IF ~JsonRaises(response)
                     THEN /\ fetched' = [kind |-> "returned",
                                         payload |-> response.body]
                          /\ fetch_pc' = "done"
                          /\ UNCHANGED last_error
                     ELSE \/ /\ last_error' = "JSONDecodeError"
                             /\ fetch_pc' = "after_try"
                             /\ UNCHANGED fetched
                          \/ /\ fetched' = [kind |-> "raised",
                                            error |-> "ValueError"]
                             /\ fetch_pc' = "done"
                             /\ UNCHANGED last_error
                ELSE /\ last_error' = HttpError(response.status)
                     /\ fetch_pc' = "after_try"
                     /\ UNCHANGED fetched
       \/ \E e \in Exceptions :
             /\ log' = Append(log, [event |-> "get", status |-> 0, body |-> e])
             /\ last_error' = e
             /\ fetch_pc' = "after_try"
             /\ UNCHANGED fetched
    /\ UNCHANGED <<retries, attempt>>
    /\ UNCHANGED <<resolveVars, callVars, answerVars>>

\* lines 37-39 and the loop header: the sleep before the next attempt, if
\* there is one
FetchBackoff ==
    /\ fetch_pc = "after_try"
    /\ IF attempt < retries
       THEN /\ log' = Append(log, [event |-> "sleep", ms |-> WaitTime(attempt)])
            /\ fetch_pc' = "get"
       ELSE /\ fetch_pc' = "loop_end"
            /\ UNCHANGED log
    /\ attempt' = attempt + 1
    /\ UNCHANGED <<retries, last_error, fetched>>
    /\ UNCHANGED <<resolveVars, callVars, answerVars>>

\* line 41
FetchRaise ==
    /\ fetch_pc = "loop_end"
    /\ fetched' = [kind |-> "raised", error |-> "RuntimeError",
                   attempts |-> retries + 1, last_error |-> last_error]
    /\ fetch_pc' = "done"
    /\ UNCHANGED <<retries, attempt, last_error, log>>
    /\ UNCHANGED <<resolveVars, callVars, answerVars>>

\* fetch(url) is entered: line 17 and the first turn of the loop
InitFetch ==
    /\ CallsIdle
    /\ AnswerIdle
    /\ id2row = MakeId2Row(CatalogRows)
    /\ set_reversed = FALSE
    /\ question = <<>>
    /\ extraction = <<>>
    /\ slots = <<>>
    /\ search_results = <<>>
    /\ candidates = <<>>
    /\ filtered = <<>>
    /\ scored = <<>>
    /\ result = Pending
    /\ retries \in 0..MaxRetries
    /\ attempt = 0
    /\ last_error = "None"
    /\ log = <<>>
    /\ fetched = Pending
    /\ fetch_pc = "get"

NextFetch == FetchGet \/ FetchBackoff \/ FetchRaise

\* a thread that runs fetch keeps running
SpecFetch == InitFetch /\ [][NextFetch]_vars /\ WF_vars(NextFetch)

---------------------------------------------------------------------------
(* Properties of fetch.                                                    *)

\* the positions of the log at which a request was sent
GetsSent == {k \in 1..Len(log) : log[k].event = "get"}

\* what the code reports for the failure logged at position k
FailureAt(k) ==
    IF log[k].status = 0 THEN log[k].body
    ELSE IF log[k].status = 200 THEN "JSONDecodeError"
    ELSE HttpError(log[k].status)

\* the state part of C18
FetchAsClaimed ==
    /\ Cardinality(GetsSent) <= retries + 1
    /\ \A k \in GetsSent :
           log[k].status = 200 =>
               /\ k = Len(log)
               /\ \A j \in GetsSent : j < k => log[j].status # 200
               /\ fetched = [kind |-> "returned", payload |-> log[k].body]
    /\ (fetched.kind = "raised" /\ fetched.error = "RuntimeError") =>
           /\ Cardinality(GetsSent) = retries + 1
           /\ \A k \in GetsSent : log[k].status # 200
           /\ log[Len(log)].event = "get"
           /\ fetched.last_error = FailureAt(Len(log))
    /\ \A k \in 1..Len(log) :
           IF k % 2 = 1 THEN log[k].event = "get"
           ELSE /\ log[k].event = "sleep"
                /\ log[k].ms = 500 * 2^((k \div 2) - 1)
    /\ fetch_pc = "done" => log[Len(log)].event = "get"

\* C18 (as claimed): fetch terminates after at most retries+1 requests;
\* it returns the payload of the first response with status 200 and
\* sends nothing after it; it raises RuntimeError only after retries+1
\* failed attempts, reporting the last failure; it sleeps 0.5 * 2^attempt
\* seconds between attempts and not after the last one.
C18_FetchReturnsFirst200OrRaisesAfterAllAttempts ==
    /\ []FetchAsClaimed
    /\ <>(fetch_pc = "done")

---------------------------------------------------------------------------
(* api_client.py, WorldBankClient.parse_value, and the year note of        *)
(* query_engine.py, QueryEngine.answer.  A decoded payload is a record:    *)
(* is_list and items for the payload, is_list and rows for its second      *)
(* item.  A row has a date (a string; <<>> when the key is missing or      *)
(* null) and a value (a number; NoneInt for null).                         *)

MaxRows == 2

\* (None, None)
NoneNone == [value |-> NoneInt, year |-> NoneInt]

\* no row of the first loop returned
NoMatch == [value |-> NoneInt, year |-> NoneInt, matched |-> FALSE]

\* parse_value without the loop of lines 59-66
ExactYearLoop_Skipped(rows, year_wanted) == NoMatch

\* lines 60-66: the first row of the requested year with a value; rows
\* whose date int() rejects are passed over
RECURSIVE ExactYearLoop(_, _)
ExactYearLoop(rows, year_wanted) ==
    IF rows = <<>> THEN NoMatch
    ELSE IF IntRaises(Head(rows).date) THEN ExactYearLoop(Tail(rows), year_wanted)
    ELSE IF /\ IntOf(Head(rows).date) = year_wanted
            /\ Head(rows).value # NoneInt
    THEN [value |-> Head(rows).value, year |-> IntOf(Head(rows).date),
          matched |-> TRUE]
    ELSE ExactYearLoop(Tail(rows), year_wanted)

\* lines 69-76: the first row with a value, with its year if the date is
\* an integer
RECURSIVE FirstValueLoop(_)
FirstValueLoop(rows) ==
    IF rows = <<>> THEN NoneNone
    ELSE IF Head(rows).value # NoneInt
    THEN [value |-> Head(rows).value,
          year  |-> IF IntRaises(Head(rows).date) THEN NoneInt
                    ELSE IntOf(Head(rows).date)]
    ELSE FirstValueLoop(Tail(rows))

\* lines 59-78, given the first loop's outcome
ValueOf(exact, rows) ==
    IF exact.matched THEN [value |-> exact.value, year |-> exact.year]
    ELSE FirstValueLoop(rows)

\* `if requested_year`
Truthy(n) == n # NoneInt /\ n # 0

\* parse_value(payload, requested_year)
parse_value(pl, year_wanted) ==
    IF ~pl.is_list \/ Len(pl.items) < 2 THEN NoneNone
    ELSE IF ~pl.items[2].is_list THEN NoneNone
    ELSE ValueOf(IF Truthy(year_wanted)
                 THEN ExactYearLoop(pl.items[2].rows, year_wanted)
                 ELSE NoMatch,
                 pl.items[2].rows)

\* fetch_indicator, line 46
ParseValue ==
    /\ parsed = Pending
    /\ payload # <<>>
    /\ parsed' = parse_value(payload, requested_year)
    /\ UNCHANGED <<payload, requested_year, answer>>
    /\ UNCHANGED <<resolveVars, callVars, fetchVars>>

\* answer, lines 46 and 52-53: year_used and the note
Answer ==
    /\ parsed # Pending
    /\ answer = Pending
    /\ answer' = [year_used |-> parsed.year,
                  note |-> IF Truthy(requested_year) /\ parsed.year # requested_year
                           THEN <<"No data for", requested_year,
                                  "showing", parsed.year>>
                           ELSE <<>>]
    /\ UNCHANGED <<payload, requested_year, parsed>>
    /\ UNCHANGED <<resolveVars, callVars, fetchVars>>

\* the rows the API may send: yearly and quarterly dates, a missing
\* date, values and nulls
Rows ==
    [date : {D_2021, D_2022, D_2022Q1, <<>>}, value : {NoneInt, 10, 20}]

\* the payloads: an error object, a list without data, a list whose
\* data is null, and lists of rows
Payloads ==
    { [is_list |-> FALSE, items |-> <<>>],
      [is_list |-> TRUE, items |-> <<[is_list |-> FALSE, rows |-> <<>>]>>],
      [is_list |-> TRUE, items |-> <<[is_list |-> FALSE, rows |-> <<>>],
                                     [is_list |-> FALSE, rows |-> <<>>]>>] }
    \cup
    { [is_list |-> TRUE, items |-> <<[is_list |-> FALSE, rows |-> <<>>],
                                     [is_list |-> TRUE, rows |-> rows]>>] :
        rows \in SeqsUpTo(Rows, MaxRows) }

InitAnswer ==
    /\ CallsIdle
    /\ FetchIdle
    /\ id2row = MakeId2Row(CatalogRows)
    /\ set_reversed = FALSE
    /\ question = <<>>
    /\ extraction = <<>>
    /\ slots = <<>>
    /\ search_results = <<>>
    /\ candidates = <<>>
    /\ filtered = <<>>
    /\ scored = <<>>
    /\ result = Pending
    /\ payload \in Payloads
    /\ requested_year \in {NoneInt, 2021, 2022}
    /\ parsed = Pending
    /\ answer = Pending

NextAnswer == ParseValue \/ Answer

SpecAnswer == InitAnswer /\ [][NextAnswer]_vars

---------------------------------------------------------------------------
(* Properties of parse_value and the year note.                            *)

\* the rows of the payload; none when the payload has no list of rows
DataRows ==
    IF payload.is_list /\ Len(payload.items) >= 2 /\ payload.items[2].is_list
    THEN payload.items[2].rows
    ELSE <<>>

\* the positions of the rows for the requested year that have a value
RowsOfRequestedYear ==
    {k \in 1..Len(DataRows) :
        /\ ~IntRaises(DataRows[k].date)
        /\ IntOf(DataRows[k].date) = requested_year
        /\ DataRows[k].value # NoneInt}

\* the positions of the rows that have a value
RowsWithValue == {k \in 1..Len(DataRows) : DataRows[k].value # NoneInt}

First(S) == CHOOSE k \in S : \A j \in S : k <= j

\* C19: parse_value returns the value of the requested year whenever a
\* row for that year has a value, wherever the row stands; otherwise the
\* first row that has a value, with its year (None when its date is not
\* an integer), or (None, None) when no row has a value; and answer
\* attaches the note exactly when a year was requested and the year used
\* differs from it.
C19_RequestedYearFirstThenFirstValue ==
    /\ parsed # Pending =>
           IF requested_year # NoneInt /\ RowsOfRequestedYear # {}
           THEN /\ parsed.year = requested_year
                /\ parsed.value = DataRows[First(RowsOfRequestedYear)].value
           ELSE IF RowsWithValue # {}
           THEN /\ parsed.value = DataRows[First(RowsWithValue)].value
                /\ parsed.year =
                       IF IntRaises(DataRows[First(RowsWithValue)].date)
                       THEN NoneInt
                       ELSE IntOf(DataRows[First(RowsWithValue)].date)
           ELSE parsed = NoneNone
    /\ answer # Pending =>
           /\ answer.year_used = parsed.year
           /\ answer.note # <<>> <=>
                  (requested_year # NoneInt /\ answer.year_used # requested_year)

\* C19 witness: the row of the requested year stands behind a row of
\* another year that has a value; the requested year's value was
\* returned and no note was attached.
C19_Witness ==
    /\ answer # Pending
    /\ requested_year = 2022
    /\ Len(DataRows) = 2
    /\ DataRows[1].date = D_2021 /\ DataRows[1].value = 10
    /\ DataRows[2].date = D_2022 /\ DataRows[2].value = 20
    /\ parsed = [value |-> 20, year |-> 2022]
    /\ answer.note = <<>>
=============================================================================
